---- MODULE Spec2Model ----
(***************************************************************************)
(* nfcmillionaire: the EMV command layer (ApplicationHelper) and the card  *)
(* record (CCInfo).  Bytes are the integers 0..255, buffers are sequences  *)
(* (index 0 of the C++ code is index 1 here), and a blocking call of       *)
(* pn53x_transceive is split at the wait: one action hands the command to  *)
(* the reader, the next one takes the reply and runs the rest of the code. *)
(***************************************************************************)
EXTENDS Integers, Sequences, FiniteSets, TLC

VARIABLES
  pc,                       \* position of the single thread
  stage,                    \* number of operations the session has begun
  op,                       \* the operation running, or the last one run
  abtRx,                    \* ApplicationHelper::abtRx, the shared receive buffer
  szRx,                     \* ApplicationHelper::szRx
  inflight,                 \* commands handed to the reader and not yet answered
  sent,                     \* commands the current operation has sent, in order
  failedAt,                 \* index in sent of the first command that came back empty
  rxOwner,                  \* the operation that issued the latest command
  rxReadBy,                 \* the operation that read abtRx since the latest command
  res,                      \* the APDU the latest executeCommand returned
  ret,                      \* return value of the last operation
  list,                     \* the AppList getAll returned
  priority,                 \* selectByPriority: the priority asked for
  application,              \* CCInfo::_application
  languagePreference,       \* CCInfo::_languagePreference
  cardholderName,           \* CCInfo::_cardholderName
  pdol,                     \* CCInfo::_pdol
  track1DiscretionaryData,  \* CCInfo::_track1DiscretionaryData
  track2EquivalentData,     \* CCInfo::_track2EquivalentData
  logSFI,                   \* CCInfo::_logSFI
  logCount,                 \* CCInfo::_logCount
  logFormat,                \* CCInfo::_logFormat
  logEntries,               \* CCInfo::_logEntries
  sfi,                      \* extractBaseRecords: loop variable sfi
  record,                   \* extractBaseRecords: loop variable record
  logIndex,                 \* extractLogEntries: loop variable i
  paylogIndex,              \* printPaylog: entries of _logEntries the loop has begun
  paylogI,                  \* printPaylog: i, the cursor into the log format
  paylogE,                  \* printPaylog: e, the cursor into the current entry
  malformed,                \* the latest scan met a length that declares more than remains
  oob                       \* the latest scan read its buffer at an index >= its size

vars == <<pc, stage, op, abtRx, szRx, inflight, sent, failedAt, rxOwner, rxReadBy, res, ret,
          list, priority, application, languagePreference, cardholderName, pdol,
          track1DiscretionaryData, track2EquivalentData, logSFI, logCount,
          logFormat, logEntries, sfi, record, logIndex, paylogIndex, paylogI, paylogE,
          malformed, oob>>

helperVars == <<abtRx, szRx, inflight, sent, failedAt, rxOwner, rxReadBy, res>>
cardVars == <<application, languagePreference, cardholderName, pdol,
              track1DiscretionaryData, track2EquivalentData, logSFI, logCount,
              logFormat, logEntries>>
paylogVars == <<paylogIndex, paylogI, paylogE>>
loopVars == <<sfi, record, logIndex, paylogVars>>

(***************************************************************************)
(* Bounds of the model.                                                    *)
(***************************************************************************)
MaxOps == 3           \* operations begun in one session
MaxApps == 2          \* application templates in one directory reply
MaxPayload == 2       \* bytes of free payload in a reply of the executor check
MaxPairs == 2         \* (tag, length) pairs in one PDOL descriptor
MaxLogCount == 2      \* largest record count the modelled card announces
MaxFormatTags == 2    \* (tag, length) pairs in one log format
ToSfi == 1            \* _TO_SFI of the modelled scan (the range starts at 1)
ToRecord == 2         \* _TO_RECORD of the modelled scan (the range starts at 1)

(***************************************************************************)
(* Sequences and bytes.                                                    *)
(***************************************************************************)
RECURSIVE Flatten(_)
Flatten(ss) == IF ss = <<>> THEN <<>> ELSE Head(ss) \o Flatten(Tail(ss))

SeqsUpTo(S, n) == UNION {[1..k -> S] : k \in 0..n}

\* memcpy(dst, src, n) on a buffer that keeps what lies behind the copy
Overlay(src, old) == src \o SubSeq(old, Len(src) + 1, Len(old))

\* An APDU: size and the bytes of data that were written.
APDU(n, d) == [size |-> n, data |-> d]
EmptyAPDU == APDU(0, <<>>)

(***************************************************************************)
(* The reader and ApplicationHelper::executeCommand.                       *)
(***************************************************************************)
\* What pn53x_transceive hands back: a negative length, or n bytes in abtRx.
Failure == [n |-> -1, bytes |-> <<>>]
Answer(b) == [n |-> Len(b), bytes |-> b]

StatusOk == <<\h90, \h00>>        \* the trailer checkTrailer accepts
StatusNotFound == <<\h6A, \h83>>  \* a trailer it refuses

\* A well-formed reply: the reader's status byte, the payload, the trailer.
Framed(payload, trailer) == Answer(<<\h00>> \o payload \o trailer)

\* pn53x_transceive writes the bytes it received over the head of abtRx.
Transceive(rx, reply) == IF reply.n < 0 THEN rx ELSE Overlay(reply.bytes, rx)

\* a call that returns while its command is still with the reader
DrainNone(q) == q

\* the blocking call returns once the reply is in: the command is no longer outstanding
Drain(q) == Tail(q)

\* a check of the first status byte alone
checkTrailerFirstOnly(n, rx) ==
  IF n < 2 THEN TRUE
  ELSE IF rx[n - 1] = \h90 THEN FALSE
  ELSE TRUE

\* true when the reply is refused
checkTrailer(n, rx) ==
  IF n < 2 THEN TRUE
  ELSE IF rx[n - 1] = \h90 /\ rx[n] = 0 THEN FALSE
  ELSE TRUE

\* an executor that hands back the reply without its two status bytes
executeCommandStripTrailer(n, rx) ==
  IF n < 0 \/ checkTrailer(n, rx) THEN EmptyAPDU
  ELSE APDU(n - 2, SubSeq(rx, 1, n - 2))

\* the APDU executeCommand returns for szRx = n and abtRx = rx
executeCommand(n, rx) ==
  IF n < 0 \/ checkTrailer(n, rx) THEN EmptyAPDU
  ELSE APDU(n - 1, SubSeq(rx, 2, n))

\* executeCommand up to the wait inside pn53x_transceive
Issue(o, cmd, first) ==
  /\ inflight' = Append(inflight, cmd)
  /\ sent' = IF first THEN <<cmd>> ELSE Append(sent, cmd)
  /\ failedAt' = IF first THEN 0 ELSE failedAt
  /\ op' = o
  /\ rxOwner' = o
  /\ rxReadBy' = "none"
  /\ UNCHANGED <<abtRx, szRx, res>>

\* executeCommand from the reply on
Complete(o, reply) ==
  /\ inflight # <<>>
  /\ inflight' = Drain(inflight)
  /\ abtRx' = Transceive(abtRx, reply)
  /\ szRx' = reply.n
  /\ res' = executeCommand(szRx', abtRx')
  /\ rxReadBy' = IF szRx' >= 2 THEN o ELSE "none"
  /\ failedAt' = IF failedAt = 0 /\ res'.size = 0 THEN Len(sent) ELSE failedAt
  /\ UNCHANGED <<rxOwner, sent>>

\* a[i] on a local APDU (i counts from 0): behind size the bytes were never written,
\* g stands for what the memory holds there
Rd(a, g, i) == IF i < Len(a.data) THEN a.data[i + 1] ELSE g

\* &a.data[i] .. &a.data[i + n - 1]
RdRange(a, g, i, n) == [k \in 1..n |-> Rd(a, g, i + k - 1)]

\* a[i] on a buffer with static or member storage: zero where nothing was written
Rd0(d, i) == IF i < Len(d) THEN d[i + 1] ELSE 0

Rd0Range(d, i, n) == [k \in 1..n |-> Rd0(d, i + k - 1)]

\* values an unwritten byte is given in the model
GarbageBytes == {\h00, \h57}

\* command templates of namespace Command
SELECT_PPSE == <<\h40, \h01, \h00, \hA4, \h04, \h00, \h0E,
                 \h32, \h50, \h41, \h59, \h2E, \h53, \h59, \h53, \h2E,
                 \h44, \h44, \h46, \h30, \h31, \h00>>
SELECT_APP_HEADER == <<\h40, \h01, \h00, \hA4, \h04, \h00>>
READ_RECORD == <<\h40, \h01, \h00, \hB2, \h01, \h0C, \h00>>
GET_DATA_LOG_FORMAT == <<\h40, \h01, \h80, \hCA, \h9F, \h4F, \h00>>
GPO_HEADER == <<\h40, \h01, \h80, \hA8, \h00, \h00>>

\* sizeof(Application::aid)
AidSize == 7

\* replies of any shape, for the commands whose payload the helper does not scan
ReplyBytes == {\h00, \h90, \h6A}
FreeReplies == {Failure} \cup {Answer(b) : b \in SeqsUpTo(ReplyBytes, MaxPayload + 2)}

(***************************************************************************)
(* ApplicationHelper::getAll.                                              *)
(***************************************************************************)
\* "Application app;": a local whose members nothing has written yet
NewApp(g) == [aid |-> [k \in 1..AidSize |-> g], priority |-> g,
              name |-> IF g = 0 THEN <<>> ELSE <<g>>]

\* memcpy(app.aid, src, len), as far as it stays inside aid
AidCopy(aid, src) == SubSeq(Overlay(src, aid), 1, AidSize)

\* the while loop over one application template, from index i on
RECURSIVE TemplateScan(_, _, _, _)
TemplateScan(rx, n, i, app) ==
  IF ~(i < n /\ Rd0(rx, i) # \h61) THEN [i |-> i, app |-> app]
  ELSE LET isAid == Rd0(rx, i) = \h4F
           len1 == Rd0(rx, i + 1)
           i1 == IF isAid THEN i + 2 + len1 - 1 ELSE i
           app1 == IF isAid
                   THEN [app EXCEPT !.aid = AidCopy(@, Rd0Range(rx, i + 2, len1))]
                   ELSE app
           isPrio == Rd0(rx, i1) = \h87
           i2 == IF isPrio THEN i1 + 2 ELSE i1
           app2 == IF isPrio THEN [app1 EXCEPT !.priority = Rd0(rx, i2)] ELSE app1
           i3 == i2 + 1
           isLabel == Rd0(rx, i3) = \h50
           len2 == Rd0(rx, i3 + 1)
           i4 == IF isLabel THEN i3 + 2 + len2 - 1 ELSE i3
           app3 == IF isLabel THEN [app2 EXCEPT !.name = Rd0Range(rx, i3 + 2, len2)]
                   ELSE app2
       IN TemplateScan(rx, n, i4, app3)

\* the for loop of getAll over abtRx[0 .. szRx - 1], from index i on
RECURSIVE DirScan(_, _, _, _, _)
DirScan(rx, n, i, lst, g) ==
  IF i >= n THEN lst
  ELSE IF Rd0(rx, i) = \h61
       THEN LET t == TemplateScan(rx, n, i + 1, NewApp(g))
            IN DirScan(rx, n, t.i, Append(lst, t.app), g)
       ELSE DirScan(rx, n, i + 1, lst, g)

GetAllCall(When) ==
  /\ pc = "idle"
  /\ stage \in When
  /\ stage' = stage + 1
  /\ Issue("getAll", SELECT_PPSE, TRUE)
  /\ pc' = "getAll_wait"
  /\ UNCHANGED <<ret, list, priority, malformed, oob>>
  /\ UNCHANGED cardVars
  /\ UNCHANGED loopVars

GetAllReply(Replies) ==
  /\ UNCHANGED stage
  /\ pc = "getAll_wait"
  /\ \E r \in Replies : Complete("getAll", r)
  /\ pc' = IF res'.size = 0 THEN "idle" ELSE "getAll_scan"
  /\ list' = IF res'.size = 0 THEN <<>> ELSE list
  /\ UNCHANGED <<op, ret, priority, malformed, oob>>
  /\ UNCHANGED cardVars
  /\ UNCHANGED loopVars

GetAllScan ==
  /\ UNCHANGED stage
  /\ pc = "getAll_scan"
  /\ \E g \in GarbageBytes : list' = DirScan(abtRx, szRx, 0, <<>>, g)
  /\ rxReadBy' = "getAll"
  /\ pc' = "idle"
  /\ UNCHANGED <<op, abtRx, szRx, inflight, sent, failedAt, rxOwner, res, ret, priority, malformed, oob>>
  /\ UNCHANGED cardVars
  /\ UNCHANGED loopVars

(***************************************************************************)
(* ApplicationHelper::selectByPriority.                                    *)
(***************************************************************************)
Matching(lst, p) == {k \in 1..Len(lst) : lst[k].priority = p}

Lowest(S) == CHOOSE k \in S : \A j \in S : k <= j
Highest(S) == CHOOSE k \in S : \A j \in S : k >= j

\* the loop without its break: the last match stays in app
PickLastByPriority(lst, p, g) ==
  IF Matching(lst, p) = {} THEN NewApp(g) ELSE lst[Highest(Matching(lst, p))]

\* the loop that picks the application: app stays as declared when nothing matches
PickByPriority(lst, p, g) ==
  IF Matching(lst, p) = {} THEN NewApp(g) ELSE lst[Lowest(Matching(lst, p))]

\* select_app[0 .. size - 1]
SelectCommand(app) == SELECT_APP_HEADER \o <<AidSize>> \o app.aid \o <<0>>

Priorities == {1, 2}

SelectCall(When) ==
  /\ pc = "idle"
  /\ stage \in When
  /\ stage' = stage + 1
  /\ \E p \in Priorities, g \in GarbageBytes :
       /\ priority' = p
       /\ Issue("selectByPriority", SelectCommand(PickByPriority(list, p, g)), TRUE)
  /\ pc' = "select_wait"
  /\ UNCHANGED <<ret, list, malformed, oob>>
  /\ UNCHANGED cardVars
  /\ UNCHANGED loopVars

SelectReply(Replies) ==
  /\ UNCHANGED stage
  /\ pc = "select_wait"
  /\ \E r \in Replies : Complete("selectByPriority", r)
  /\ pc' = "idle"
  /\ UNCHANGED <<op, ret, list, priority, malformed, oob>>
  /\ UNCHANGED cardVars
  /\ UNCHANGED loopVars

\* directory replies of the modelled card
Aids == {<<\hA0, \h00, \h00, \h00, \h03, \h10, \h10>>,
         <<\hA0, \h00, \h00, \h00, \h04, \h10, \h10>>}
Templates ==
  {<<\h61, \h0C, \h4F, AidSize>> \o a \o <<\h87, \h01, p>> : a \in Aids, p \in Priorities}
  \cup {<<\h61, \h0F, \h4F, AidSize>> \o a \o <<\h50, \h01, \h41, \h87, \h01, 1>> :
          a \in {<<\hA0, \h00, \h00, \h00, \h03, \h10, \h10>>}}
DirectoryReplies ==
  {Failure}
  \cup {Framed(Flatten(ts), tr) : ts \in SeqsUpTo(Templates, MaxApps),
                                  tr \in {StatusOk, StatusNotFound}}

(***************************************************************************)
(* CCInfo::extractAppResponse.                                             *)
(***************************************************************************)
\* the inner loop over the File Control Information template of len bytes at base
RECURSIVE FciScan(_, _, _, _, _, _)
FciScan(a, g, base, len, j, st) ==
  IF j >= len THEN st
  ELSE IF j + 1 < len /\ Rd(a, g, base + j) = \h9F /\ Rd(a, g, base + j + 1) = \h4D
       THEN FciScan(a, g, base, len, j + 5,
                    [st EXCEPT !.logSFI = Rd(a, g, base + j + 3),
                               !.logCount = Rd(a, g, base + j + 4),
                               !.oob = @ \/ base + j + 4 >= a.size])
       ELSE FciScan(a, g, base, len, j + 1,
                    [st EXCEPT !.oob = @ \/ (j + 1 < len /\ base + j >= a.size)
                                          \/ (j + 1 < len /\ Rd(a, g, base + j) = \h9F
                                                /\ base + j + 1 >= a.size)])

\* the for loop of extractAppResponse over buff[0 .. size - 1], from index i on
RECURSIVE AppScan(_, _, _, _)
AppScan(a, g, i, st) ==
  IF i >= a.size THEN st
  ELSE
    LET two == i + 1 < a.size
        len == Rd(a, g, i + 2)
        val == RdRange(a, g, i + 3, len)
        bad == i + 3 + len > a.size
        far == i + 2 >= a.size \/ (len > 0 /\ bad)
    IN IF two /\ Rd(a, g, i) = \h5F /\ Rd(a, g, i + 1) = \h2D
       THEN AppScan(a, g, i + 3 + len,
                    [st EXCEPT !.languagePreference = Overlay(val, @),
                               !.malformed = @ \/ bad, !.oob = @ \/ far])
       ELSE IF two /\ Rd(a, g, i) = \h9F /\ Rd(a, g, i + 1) = \h38
       THEN AppScan(a, g, i + 3 + len,
                    [st EXCEPT !.pdol = APDU(len, Overlay(val, @.data)),
                               !.malformed = @ \/ bad, !.oob = @ \/ far])
       ELSE IF two /\ Rd(a, g, i) = \hBF /\ Rd(a, g, i + 1) = \h0C
       THEN AppScan(a, g, i + 3 + len,
                    FciScan(a, g, i + 3, len, 0,
                            [st EXCEPT !.malformed = @ \/ bad,
                                       !.oob = @ \/ i + 2 >= a.size]))
       ELSE AppScan(a, g, i + 1, st)

\* extractAppResponse has no return statement: the caller gets whatever the register holds
ExtractAppResponse(When, Responses) ==
  /\ pc = "idle"
  /\ stage \in When
  /\ stage' = stage + 1
  /\ \E app \in {list[k] : k \in 1..Len(list)} \cup {NewApp(0)},
        a \in Responses, g \in GarbageBytes, r \in {0, 1} :
       LET st == AppScan(a, g, 0,
                         [languagePreference |-> languagePreference, pdol |-> pdol,
                          logSFI |-> logSFI, logCount |-> logCount,
                          malformed |-> FALSE, oob |-> FALSE])
       IN /\ application' = app
          /\ languagePreference' = st.languagePreference
          /\ pdol' = st.pdol
          /\ logSFI' = st.logSFI
          /\ logCount' = st.logCount
          /\ malformed' = st.malformed
          /\ oob' = st.oob
          /\ ret' = r
  /\ op' = "extractAppResponse"
  /\ sent' = <<>>
  /\ failedAt' = 0
  /\ UNCHANGED <<pc, abtRx, szRx, inflight, rxOwner, rxReadBy, res, list, priority,
                 cardholderName, track1DiscretionaryData, track2EquivalentData,
                 logFormat, logEntries>>
  /\ UNCHANGED loopVars

(***************************************************************************)
(* CCInfo::getProcessingOptions.                                           *)
(***************************************************************************)
PDOLValues ==
  (\h9F59 :> <<\hC8, \h80, \h00>>) @@
  (\h9F5A :> <<\h00>>) @@
  (\h9F58 :> <<\h01>>) @@
  (\h9F66 :> <<\hB6, \h20, \hC0, \h00>>) @@
  (\h9F02 :> <<\h00, \h00, \h10, \h00, \h00, \h00>>) @@
  (\h9F03 :> <<\h00, \h00, \h00, \h00, \h00, \h00>>) @@
  (\h9F1A :> <<\h01, \h24>>) @@
  (\h5F2A :> <<\h01, \h24>>) @@
  (\h95 :> <<\h00, \h00, \h00, \h00, \h00>>) @@
  (\h9A :> <<\h15, \h01, \h01>>) @@
  (\h9C :> <<\h00>>) @@
  (\h9F37 :> <<\h82, \h3D, \hDE, \h7A>>)

\* a lookup that hands out a value for every tag, as operator[] would
HasValueAlways(tag) == TRUE

\* PDOLValues.at(tag) returns; it throws std::out_of_range otherwise
HasValue(tag) == tag \in DOMAIN PDOLValues

ValueOf(tag) == IF tag \in DOMAIN PDOLValues THEN PDOLValues[tag] ELSE <<>>

\* the loop that browses the PDOL field, from index i on: the list of (tag, length)
RECURSIVE ParsePdol(_, _, _)
ParsePdol(d, size, i) ==
  IF i >= size THEN <<>>
  ELSE LET two == Rd0(d, i) \in {\h5F, \h9F, \hBF}
           tag == IF two THEN Rd0(d, i) * 256 + Rd0(d, i + 1) ELSE Rd0(d, i)
           at == IF two THEN i + 2 ELSE i + 1
       IN <<[tag |-> tag, len |-> Rd0(d, at)]>> \o ParsePdol(d, size, at + 1)

RECURSIVE SumLen(_)
SumLen(tl) == IF tl = <<>> THEN 0 ELSE Head(tl).len + SumLen(Tail(tl))

\* memcpy(&gpo.data[gpo.size], PDOLValues.at(tag), len): len bytes from the canned array,
\* and from the memory behind it when len is larger than the array
TagValue(p, g) ==
  [k \in 1..p.len |-> IF k <= Len(ValueOf(p.tag)) THEN ValueOf(p.tag)[k] ELSE g]

\* gpo.data[0 .. gpo.size - 1]
GpoCommand(tl, g) ==
  GPO_HEADER \o <<(SumLen(tl) + 2) % 256, \h83, SumLen(tl) % 256>>
  \o Flatten([k \in 1..Len(tl) |-> TagValue(tl[k], g)]) \o <<0>>

GpoCall(When) ==
  /\ pc = "idle"
  /\ stage \in When
  /\ stage' = stage + 1
  /\ LET tl == ParsePdol(pdol.data, pdol.size, 0)
     IN IF \A k \in 1..Len(tl) : HasValue(tl[k].tag)
        THEN /\ \E g \in GarbageBytes : Issue("getProcessingOptions", GpoCommand(tl, g), TRUE)
             /\ pc' = "gpo_wait"
        ELSE /\ pc' = "fatal"
             /\ op' = "getProcessingOptions"
             /\ sent' = <<>>
             /\ failedAt' = 0
             /\ UNCHANGED <<abtRx, szRx, inflight, rxOwner, rxReadBy, res>>
  /\ UNCHANGED <<ret, list, priority, malformed, oob>>
  /\ UNCHANGED cardVars
  /\ UNCHANGED loopVars

GpoReply(Replies) ==
  /\ UNCHANGED stage
  /\ pc = "gpo_wait"
  /\ \E r \in Replies : Complete("getProcessingOptions", r)
  /\ ret' = IF res'.size = 0 THEN 1 ELSE 0
  /\ pc' = "idle"
  /\ UNCHANGED <<op, list, priority, malformed, oob>>
  /\ UNCHANGED cardVars
  /\ UNCHANGED loopVars

(***************************************************************************)
(* CCInfo::extractBaseRecords.                                             *)
(***************************************************************************)
FromSfi == 1
FromRecord == 1

\* the read-record command: P1 = record number n, P2 = (f << 3) | (1 << 2), as bytes
ReadRecord(f, n) ==
  [READ_RECORD EXCEPT ![5] = n % 256, ![6] = ((f * 8) % 256) + 4]

\* a scan that stores a track whenever it meets its tag
AlwaysStore(size) == TRUE

\* "_track2EquivalentData.size == 0" and "_track1DiscretionaryData.size == 0"
TrackGuard(size) == size = 0

\* the for loop of extractBaseRecords over buff[0 .. size - 1], from index i on
RECURSIVE BaseScan(_, _, _, _)
BaseScan(a, g, i, st) ==
  IF i >= a.size THEN st
  ELSE
    LET two == i + 1 < a.size
        len1 == Rd(a, g, i + 1)
        bad1 == i + 2 + len1 > a.size
        len == Rd(a, g, i + 2)
        bad == i + 3 + len > a.size
    IN IF Rd(a, g, i) = \h57 /\ TrackGuard(st.track2.size)
       THEN BaseScan(a, g, i + 2 + len1,
                     [st EXCEPT !.track2 = APDU(len1, Overlay(RdRange(a, g, i + 2, len1), @.data)),
                                !.malformed = @ \/ bad1,
                                !.oob = @ \/ i + 1 >= a.size \/ (len1 > 0 /\ bad1)])
       ELSE IF two /\ Rd(a, g, i) = \h5F /\ Rd(a, g, i + 1) = \h20
       THEN BaseScan(a, g, i + 3 + len,
                     [st EXCEPT !.name = IF len > 2 THEN Overlay(RdRange(a, g, i + 3, len), @)
                                         ELSE @,
                                !.malformed = @ \/ bad,
                                !.oob = @ \/ i + 2 >= a.size \/ (len > 2 /\ bad)])
       ELSE IF two /\ TrackGuard(st.track1.size)
               /\ Rd(a, g, i) = \h9F /\ Rd(a, g, i + 1) = \h1F
       THEN BaseScan(a, g, i + 3 + len,
                     [st EXCEPT !.track1 = APDU(len, Overlay(RdRange(a, g, i + 3, len), @.data)),
                                !.malformed = @ \/ bad,
                                !.oob = @ \/ i + 2 >= a.size \/ (len > 0 /\ bad)])
       ELSE BaseScan(a, g, i + 1, st)

\* the loop headers: the position after record n of file f
NextRecord(f, n) ==
  [sfi |-> IF n = ToRecord THEN f + 1 ELSE f,
   record |-> IF n = ToRecord THEN FromRecord ELSE n + 1]

\* a scan that gives up at an empty result
AbortScan(f, n, rv) == [pc |-> "idle", sfi |-> f, record |-> n, ret |-> 1]

\* "if (res.size == 0) continue;": on to the next record, nothing is returned
AfterEmpty(f, n, rv) ==
  [pc |-> "base_loop", sfi |-> NextRecord(f, n).sfi, record |-> NextRecord(f, n).record,
   ret |-> rv]

BaseStart(When) ==
  /\ pc = "idle"
  /\ stage \in When
  /\ stage' = stage + 1
  /\ pc' = "base_loop"
  /\ op' = "extractBaseRecords"
  /\ sfi' = FromSfi
  /\ record' = FromRecord
  /\ sent' = <<>>
  /\ failedAt' = 0
  /\ malformed' = FALSE
  /\ oob' = FALSE
  /\ UNCHANGED <<abtRx, szRx, inflight, rxOwner, rxReadBy, res, ret, list, priority, logIndex>>
  /\ UNCHANGED cardVars
  /\ UNCHANGED paylogVars

BaseIssue ==
  /\ UNCHANGED stage
  /\ pc = "base_loop"
  /\ sfi <= ToSfi
  /\ Issue("extractBaseRecords", ReadRecord(sfi, record), FALSE)
  /\ pc' = "base_wait"
  /\ UNCHANGED <<ret, list, priority, malformed, oob>>
  /\ UNCHANGED cardVars
  /\ UNCHANGED loopVars

BaseReply(Replies) ==
  /\ UNCHANGED stage
  /\ pc = "base_wait"
  /\ \E r \in Replies : Complete("extractBaseRecords", r)
  /\ IF res'.size = 0
     THEN /\ UNCHANGED <<cardholderName, track1DiscretionaryData, track2EquivalentData,
                         malformed, oob>>
          /\ pc' = AfterEmpty(sfi, record, ret).pc
          /\ sfi' = AfterEmpty(sfi, record, ret).sfi
          /\ record' = AfterEmpty(sfi, record, ret).record
          /\ ret' = AfterEmpty(sfi, record, ret).ret
     ELSE /\ \E g \in GarbageBytes :
               LET st == BaseScan(res', g, 0,
                                  [track2 |-> track2EquivalentData,
                                   track1 |-> track1DiscretionaryData,
                                   name |-> cardholderName,
                                   malformed |-> malformed, oob |-> oob])
               IN /\ track2EquivalentData' = st.track2
                  /\ track1DiscretionaryData' = st.track1
                  /\ cardholderName' = st.name
                  /\ malformed' = st.malformed
                  /\ oob' = st.oob
          /\ pc' = "base_loop"
          /\ sfi' = NextRecord(sfi, record).sfi
          /\ record' = NextRecord(sfi, record).record
          /\ ret' = ret
  /\ UNCHANGED <<op, list, priority, application, languagePreference, pdol, logSFI,
                 logCount, logFormat, logEntries, logIndex>>
  /\ UNCHANGED paylogVars

BaseReturn ==
  /\ UNCHANGED stage
  /\ pc = "base_loop"
  /\ sfi > ToSfi
  /\ pc' = "idle"
  /\ ret' = 0
  /\ UNCHANGED <<op, list, priority, malformed, oob>>
  /\ UNCHANGED helperVars
  /\ UNCHANGED cardVars
  /\ UNCHANGED loopVars

(***************************************************************************)
(* CCInfo::extractLogEntries.                                              *)
(***************************************************************************)
\* number of elements of _logEntries in the model (the array is declared in ccinfo.hh)
LogCapacity == 3

\* a store that always lands in the first element
LogStoreFirst(entries, i, v) == [entries EXCEPT ![1] = v]

\* "_logEntries[i] = ...": element i (from 0) of the array
LogStore(entries, i, v) ==
  IF i < LogCapacity THEN [entries EXCEPT ![i + 1] = v] ELSE entries

LogCall(When) ==
  /\ pc = "idle"
  /\ stage \in When
  /\ stage' = stage + 1
  /\ Issue("extractLogEntries", GET_DATA_LOG_FORMAT, TRUE)
  /\ pc' = "log_format_wait"
  /\ UNCHANGED <<ret, list, priority, malformed, oob>>
  /\ UNCHANGED cardVars
  /\ UNCHANGED loopVars

LogFormatReply(Replies) ==
  /\ UNCHANGED stage
  /\ pc = "log_format_wait"
  /\ \E r \in Replies : Complete("extractLogEntries", r)
  /\ logFormat' = res'
  /\ pc' = IF res'.size = 0 THEN "idle" ELSE "log_loop"
  /\ ret' = IF res'.size = 0 THEN 1 ELSE ret
  /\ logIndex' = IF res'.size = 0 THEN logIndex ELSE 0
  /\ UNCHANGED <<op, list, priority, malformed, oob, application, languagePreference,
                 cardholderName, pdol, track1DiscretionaryData, track2EquivalentData,
                 logSFI, logCount, logEntries, sfi, record>>
  /\ UNCHANGED paylogVars

LogIssue ==
  /\ UNCHANGED stage
  /\ pc = "log_loop"
  /\ logIndex < logCount
  /\ Issue("extractLogEntries", ReadRecord(logSFI, logIndex + 1), FALSE)
  /\ pc' = "log_wait"
  /\ UNCHANGED <<ret, list, priority, malformed, oob>>
  /\ UNCHANGED cardVars
  /\ UNCHANGED loopVars

LogReply(Replies) ==
  /\ UNCHANGED stage
  /\ pc = "log_wait"
  /\ \E r \in Replies : Complete("extractLogEntries", r)
  /\ logEntries' = LogStore(logEntries, logIndex, res')
  /\ pc' = IF res'.size = 0 THEN "idle" ELSE "log_loop"
  /\ ret' = IF res'.size = 0 THEN 1 ELSE ret
  /\ logIndex' = IF res'.size = 0 THEN logIndex ELSE logIndex + 1
  /\ UNCHANGED <<op, list, priority, malformed, oob, application, languagePreference,
                 cardholderName, pdol, track1DiscretionaryData, track2EquivalentData,
                 logSFI, logCount, logFormat, sfi, record>>
  /\ UNCHANGED paylogVars

LogReturn ==
  /\ UNCHANGED stage
  /\ pc = "log_loop"
  /\ logIndex >= logCount
  /\ pc' = "idle"
  /\ ret' = 0
  /\ UNCHANGED <<op, list, priority, malformed, oob>>
  /\ UNCHANGED helperVars
  /\ UNCHANGED cardVars
  /\ UNCHANGED loopVars

(***************************************************************************)
(* CCInfo::printPaylog.  What goes to std::cout is not part of the state;  *)
(* the model keeps the two cursors the text is produced from.              *)
(***************************************************************************)
\* the keys of CCInfo::_countryCodes and CCInfo::_currencyCodes
CountryCodes == {\h0756, \h0250, \h0826, \h0124, \h0840}
CurrencyCodes == {\h0756, \h0978, \h0826, \h0124, \h0840}

\* "entry.data[e] << 8 | entry.data[e+1]"
CodeAt(entry, g, e) == Rd(entry, g, e) * 256 + Rd(entry, g, e + 1)

\* the two-byte tags whose branch prints len bytes, one e++ for each
LenTags == {<<\h9F, \h21>>, <<\h9F, \h02>>, <<\h9F, \h4E>>, <<\h9F, \h36>>, <<\h9F, \h27>>}

\* the currency and country branches: len bytes for a code the table does not hold,
\* "e += 2" for one it holds
CodeField(entry, g, e, len, codes) ==
  IF CodeAt(entry, g, e) \notin codes THEN e + len ELSE e + 2

\* one pass through the body of "for (size_t i = 0; i < size; ++i)": i and e after the
\* body, before the ++i
FormatStep(format, entry, g, i, e) ==
  LET b0 == Rd(format, g, i)
      b1 == Rd(format, g, i + 1)
  IN IF b0 = \h9A THEN [i |-> i + 1, e |-> e + Rd(format, g, i + 1)]
     ELSE IF b0 = \h9C THEN [i |-> i + 1, e |-> e + 1]
     ELSE IF i + 1 < format.size
          THEN LET len == Rd(format, g, i + 2)
               IN IF <<b0, b1>> \in LenTags THEN [i |-> i + 2, e |-> e + len]
                  ELSE IF <<b0, b1>> = <<\h5F, \h2A>>
                       THEN [i |-> i + 2, e |-> CodeField(entry, g, e, len, CurrencyCodes)]
                  ELSE IF <<b0, b1>> = <<\h9F, \h1A>>
                       THEN [i |-> i + 2, e |-> CodeField(entry, g, e, len, CountryCodes)]
                  ELSE [i |-> i, e |-> e]
          ELSE [i |-> i, e |-> e]

PaylogStart(When) ==
  /\ pc = "idle"
  /\ stage \in When
  /\ stage' = stage + 1
  /\ op' = "printPaylog"
  /\ pc' = "paylog_entry"
  /\ paylogIndex' = 0
  /\ UNCHANGED <<paylogI, paylogE, sfi, record, logIndex>>
  /\ UNCHANGED <<ret, list, priority, malformed, oob>>
  /\ UNCHANGED helperVars
  /\ UNCHANGED cardVars

\* "for (APDU entry : _logEntries)": the next element, "break" at the first empty one
PaylogEntry ==
  /\ UNCHANGED stage
  /\ pc = "paylog_entry"
  /\ IF paylogIndex >= LogCapacity \/ logEntries[paylogIndex + 1].size = 0
     THEN /\ pc' = "idle"
          /\ UNCHANGED paylogVars
     ELSE /\ pc' = "paylog_walk"
          /\ paylogIndex' = paylogIndex + 1
          /\ paylogI' = 0
          /\ paylogE' = 0
  /\ UNCHANGED <<sfi, record, logIndex>>
  /\ UNCHANGED <<op, ret, list, priority, malformed, oob>>
  /\ UNCHANGED helperVars
  /\ UNCHANGED cardVars

\* one iteration of the loop over the format, its ++i included
PaylogStep ==
  /\ UNCHANGED stage
  /\ pc = "paylog_walk"
  /\ paylogI < logFormat.size
  /\ \E g \in GarbageBytes :
       LET st == FormatStep(logFormat, logEntries[paylogIndex], g, paylogI, paylogE)
       IN /\ paylogI' = st.i + 1
          /\ paylogE' = st.e
  /\ UNCHANGED <<pc, paylogIndex, sfi, record, logIndex>>
  /\ UNCHANGED <<op, ret, list, priority, malformed, oob>>
  /\ UNCHANGED helperVars
  /\ UNCHANGED cardVars

\* the format is walked: on to the next entry
PaylogEntryDone ==
  /\ UNCHANGED stage
  /\ pc = "paylog_walk"
  /\ paylogI >= logFormat.size
  /\ pc' = "paylog_entry"
  /\ UNCHANGED paylogVars
  /\ UNCHANGED <<sfi, record, logIndex>>
  /\ UNCHANGED <<op, ret, list, priority, malformed, oob>>
  /\ UNCHANGED helperVars
  /\ UNCHANGED cardVars

(***************************************************************************)
(* What the modelled card answers.                                         *)
(***************************************************************************)
\* an APDU as executeCommand returns it for an accepted reply: payload, then the trailer
Accepted(payload) == APDU(Len(payload) + 2, payload \o StatusOk)

\* PDOL descriptors: (tag, length) pairs with the canned length, a longer one, an unknown tag
PdolPairs == {<<\h9F, \h02, \h06>>, <<\h9F, \h02, \h07>>, <<\h9A, \h03>>,
              <<\h9C, \h01>>, <<\h9F, \h7A, \h01>>}
PdolDescriptors == {Flatten(ps) : ps \in SeqsUpTo(PdolPairs, MaxPairs)}
PdolResponses ==
  {Accepted(<<\h9F, \h38, Len(d)>> \o d) : d \in PdolDescriptors}
  \cup {Accepted(<<\h5F, \h2D, \h02, \h65, \h6E, \h9F, \h38, \h02, \h9C, \h01>>),
         Accepted(<<\h9F, \h38, \h05, \h9A>>), Accepted(<<\h5F, \h2D, \h04, \h66>>)}
GpoReplies == {Failure, Framed(<<\h77, \h00>>, StatusOk), Framed(<<>>, StatusNotFound)}

\* select responses that carry the Log Entry (SFI, record count)
LogSfis == {1, 11, 33}
LogResponses ==
  {Accepted(<<\hBF, \h0C, \h05, \h9F, \h4D, \h02, f, c>>) : f \in LogSfis, c \in 0..MaxLogCount}
LogReplies == {Failure, Framed(<<\h9A, \h03>>, StatusOk), Framed(<<\h01>>, StatusOk),
               Framed(<<>>, StatusNotFound)}

\* log formats: tag 9F4F, the length of the list, the (tag, length) pairs of the list:
\* the fields with the lengths EMV gives them, a type of two bytes, a currency of three,
\* and a tag printPaylog does not know
FormatPairs == {<<\h9A, \h03>>, <<\h9C, \h01>>, <<\h9C, \h02>>, <<\h5F, \h2A, \h02>>,
                <<\h5F, \h2A, \h03>>, <<\h9F, \h02, \h06>>, <<\h9F, \h1A, \h02>>,
                <<\h9F, \h03, \h06>>}
FormatLists == {Flatten(ps) : ps \in SeqsUpTo(FormatPairs, MaxFormatTags)}
PaylogFormats ==
  {Failure} \cup {Framed(<<\h9F, \h4F, Len(d)>> \o d, StatusOk) : d \in FormatLists}
\* log records: one that begins with a code both tables hold, one that does not
PaylogEntries == {Failure, Framed(<<\h08, \h26, \h01>>, StatusOk),
                  Framed(<<\h00, \h00, \h01>>, StatusOk)}
PaylogResponses ==
  {Accepted(<<\hBF, \h0C, \h05, \h9F, \h4D, \h02, \h0B, c>>) : c \in 1..MaxLogCount}

\* records: well-formed fields, fields whose length byte declares too much, and pairs
Track2A == <<\h57, \h02, \h12, \h34>>
Track2B == <<\h57, \h01, \h56>>
Track2Long == <<\h57, \h05, \h12>>
Track1A == <<\h9F, \h1F, \h01, \h30>>
Track1Long == <<\h9F, \h1F, \h04, \h31>>
NameA == <<\h5F, \h20, \h03, \h41, \h42, \h43>>
RecordPayloads == {Track2A, Track2B, Track2Long, Track1A, Track1Long, NameA,
                   Track2A \o Track2B, Track1A \o Track2B, NameA \o Track1Long}
RecordReplies ==
  {Failure} \cup {Framed(<<>>, StatusNotFound)}
  \cup {Framed(p, StatusOk) : p \in RecordPayloads}

\* the replies of a whole session
SessionDirectory == {Failure} \cup
  {Framed(t, StatusOk) : t \in {t1 \in Templates : t1[2] = \h0C}}
SessionReplies == {Failure, Framed(<<\h77, \h00>>, StatusOk)}
SessionSelect ==
  {Failure,
   Framed(<<\h9F, \h38, \h02, \h9C, \h01, \hBF, \h0C, \h05, \h9F, \h4D, \h02, \h0B, \h01>>,
          StatusOk),
   Framed(<<\h9F, \h38, \h02, \h9F, \h7A>>, StatusOk)}
SessionRecords == {Failure, Framed(<<\h57, \h02, \h12, \h34>>, StatusOk),
                   Framed(<<\h57, \h05, \h12>>, StatusOk)}

(***************************************************************************)
(* The card record after CCInfo::CCInfo(), and the specifications.         *)
(***************************************************************************)
Init ==
  /\ pc = "idle"
  /\ stage = 0
  /\ op = "none"
  /\ abtRx = <<>>
  /\ szRx = 0
  /\ inflight = <<>>
  /\ sent = <<>>
  /\ failedAt = 0
  /\ rxOwner = "none"
  /\ rxReadBy = "none"
  /\ res = EmptyAPDU
  /\ ret = 0
  /\ list = <<>>
  /\ priority = 0
  /\ application = NewApp(0)
  /\ languagePreference = <<>>
  /\ cardholderName = <<>>
  /\ pdol = EmptyAPDU
  /\ track1DiscretionaryData = EmptyAPDU
  /\ track2EquivalentData = EmptyAPDU
  /\ logSFI = 0
  /\ logCount = 0
  /\ logFormat = EmptyAPDU
  /\ logEntries = [k \in 1..LogCapacity |-> EmptyAPDU]
  /\ sfi = FromSfi
  /\ record = FromRecord
  /\ logIndex = 0
  /\ paylogIndex = 0
  /\ paylogI = 0
  /\ paylogE = 0
  /\ malformed = FALSE
  /\ oob = FALSE

\* a whole session, in the order of the control flow: discovery, selection, the select
\* response, the record scan, the processing options (optional), the log fetch
Next ==
  \/ GetAllCall({0})
  \/ GetAllReply(SessionDirectory)
  \/ GetAllScan
  \/ SelectCall({1})
  \/ SelectReply(SessionSelect)
  \/ ExtractAppResponse({2}, IF res.size > 0 THEN {res} ELSE {})
  \/ BaseStart({3})
  \/ BaseIssue
  \/ BaseReply(SessionRecords)
  \/ BaseReturn
  \/ GpoCall({4})
  \/ GpoReply(SessionReplies)
  \/ LogCall({4, 5})
  \/ LogFormatReply(SessionReplies)
  \/ LogIssue
  \/ LogReply(SessionReplies)
  \/ LogReturn

Spec == Init /\ [][Next]_vars

AnyTime == 0..(MaxOps - 1)

\* the command executor alone, with replies of any shape
NextExec ==
  \/ SelectCall(AnyTime)
  \/ SelectReply(FreeReplies)

SpecExec == Init /\ [][NextExec]_vars

\* discovery and selection
NextHelper ==
  \/ GetAllCall(AnyTime)
  \/ GetAllReply(DirectoryReplies)
  \/ GetAllScan
  \/ SelectCall(AnyTime)
  \/ SelectReply(SessionReplies)

SpecHelper == Init /\ [][NextHelper]_vars

\* the record extractor
NextBase ==
  \/ BaseStart(AnyTime)
  \/ BaseIssue
  \/ BaseReply(RecordReplies)
  \/ BaseReturn

SpecBase == Init /\ [][NextBase]_vars

\* the options negotiator
NextGpo ==
  \/ ExtractAppResponse(AnyTime, PdolResponses)
  \/ GpoCall(AnyTime)
  \/ GpoReply(GpoReplies)

SpecGpo == Init /\ [][NextGpo]_vars

\* the log fetch
NextLog ==
  \/ ExtractAppResponse(AnyTime, LogResponses)
  \/ LogCall(AnyTime)
  \/ LogFormatReply(LogReplies)
  \/ LogIssue
  \/ LogReply(LogReplies)
  \/ LogReturn

SpecLog == Init /\ [][NextLog]_vars

\* the log fetch, then the log as printPaylog walks it
NextPaylog ==
  \/ ExtractAppResponse(AnyTime, PaylogResponses)
  \/ LogCall(AnyTime)
  \/ LogFormatReply(PaylogFormats)
  \/ LogIssue
  \/ LogReply(PaylogEntries)
  \/ LogReturn
  \/ PaylogStart(AnyTime)
  \/ PaylogEntry
  \/ PaylogStep
  \/ PaylogEntryDone

SpecPaylog == Init /\ [][NextPaylog]_vars

(***************************************************************************)
(* Properties of the command executor (SpecExec).                          *)
(***************************************************************************)
\* the reply in abtRx[0 .. n - 1] ends in 0x90 0x00
TrailerOk(n, rx) == n >= 2 /\ rx[n - 1] = \h90 /\ rx[n] = \h00

\* C1: executeCommand returns an empty payload (size 0) whenever the transport reports a
\* negative length or the reply does not end in 0x90 0x00, whatever bytes precede the
\* trailer, replies shorter than two bytes included.
C1_EmptyOnFailure == (szRx < 0 \/ ~TrailerOk(szRx, abtRx)) => res.size = 0

\* a reply with payload bytes before a refused trailer has been answered with size 0
C1_Witness ==
  /\ rxOwner = "selectByPriority" /\ inflight = <<>>
  /\ szRx > 2 /\ ~TrailerOk(szRx, abtRx) /\ res.size = 0

C8_SelectFirstMatch ==
  op = "selectByPriority" =>
    /\ Len(sent) = 1
    /\ Len(sent[1]) = Len(SELECT_APP_HEADER) + 1 + AidSize + 1
    /\ SubSeq(sent[1], 1, Len(SELECT_APP_HEADER)) = SELECT_APP_HEADER
    /\ sent[1][Len(SELECT_APP_HEADER) + 1] = AidSize
    /\ sent[1][Len(sent[1])] = 0
    /\ \A k \in 1..Len(list) :
         (list[k].priority = priority /\ \A j \in 1..(k - 1) : list[j].priority # priority)
         => SubSeq(sent[1], Len(SELECT_APP_HEADER) + 2, Len(SELECT_APP_HEADER) + 1 + AidSize)
              = list[k].aid

\* a selection among two entries of the same priority and different identifiers is over
C8_Witness ==
  /\ op = "selectByPriority" /\ pc = "idle"
  /\ Len(list) = 2 /\ list[1].priority = priority /\ list[2].priority = priority
  /\ list[1].aid # list[2].aid

(***************************************************************************)
(* Properties of the record scan (SpecBase).                               *)
(***************************************************************************)
\* C3: first occurrence wins: once track2EquivalentData (track1DiscretionaryData) has a
\* non-zero size, no later response changes its size or content, so a response processed
\* twice leaves what it left the first time.
C3_FirstWins ==
  [][/\ track2EquivalentData.size # 0 => track2EquivalentData' = track2EquivalentData
     /\ track1DiscretionaryData.size # 0 => track1DiscretionaryData' = track1DiscretionaryData
    ]_vars

\* both tracks are stored, and the response just scanned carries another track 2 value
C3_Witness ==
  /\ op = "extractBaseRecords" /\ pc = "base_loop"
  /\ track2EquivalentData = APDU(2, <<\h12, \h34>>)
  /\ track1DiscretionaryData.size # 0
  /\ res = Accepted(Track1A \o Track2B)

\* the k-th read-record command of the scan (k from 1), file by file, record by record
ScanCommand(k) ==
  [READ_RECORD EXCEPT
     ![5] = FromRecord + ((k - 1) % (ToRecord - FromRecord + 1)),
     ![6] = (FromSfi + ((k - 1) \div (ToRecord - FromRecord + 1))) * 8 + 4]

ScanLength == (ToSfi - FromSfi + 1) * (ToRecord - FromRecord + 1)

\* C6 as stated: the first read-record command that comes back empty ends the scan at
\* once: no further command is issued and the scan reports failure.
C6_AbortsOnFailure ==
  (op = "extractBaseRecords" /\ failedAt # 0) =>
    (Len(sent) = failedAt /\ pc = "idle" /\ ret = 1)

\* C6 amended: a read-record command that comes back empty is skipped: the scan issues the
\* commands of all files and records in order all the same, and reports success at the end.
C6_ContinuesOnFailure ==
  op = "extractBaseRecords" =>
    /\ Len(sent) <= ScanLength
    /\ \A k \in 1..Len(sent) : sent[k] = ScanCommand(k)
    /\ pc = "idle" => (Len(sent) = ScanLength /\ ret = 0)

\* the first command failed, the scan went on, decoded a later record and returned 0
C6_Witness ==
  /\ op = "extractBaseRecords" /\ pc = "idle"
  /\ failedAt = 1 /\ Len(sent) = ScanLength /\ ret = 0
  /\ track2EquivalentData.size # 0

\* C7: when a length byte declares more bytes than remain in the buffer, the extractor
\* fails with a malformed-record condition and reads no byte at an index at or beyond the
\* size of the buffer.
C7_BoundedReads ==
  (op = "extractBaseRecords" /\ malformed) => (~oob /\ pc = "idle" /\ ret = 1)

(***************************************************************************)
(* Properties of the options negotiator (SpecGpo).                         *)
(***************************************************************************)
\* the (tag, length) pairs of the stored descriptor
Pairs == ParsePdol(pdol.data, pdol.size, 0)

\* C4: for a descriptor whose tags all have a substitution value, getProcessingOptions
\* sends exactly: the GPO header, Lc = total + 2, 0x83, total, the canned value of every
\* (tag, length) pair in descriptor order, and 0x00, total being the sum of the lengths.
C4_GpoBytes ==
  (op = "getProcessingOptions" /\ \A k \in 1..Len(Pairs) : Pairs[k].tag \in DOMAIN PDOLValues)
  => sent = << GPO_HEADER \o <<SumLen(Pairs) + 2, \h83, SumLen(Pairs)>>
               \o Flatten([k \in 1..Len(Pairs) |-> PDOLValues[Pairs[k].tag]]) \o <<0>> >>

\* C9: when the descriptor holds a tag without an entry in the substitution table,
\* getProcessingOptions ends in a fatal error and no command goes to the card.
C9_UnknownTagFatal ==
  (op = "getProcessingOptions" /\ \E k \in 1..Len(Pairs) : Pairs[k].tag \notin DOMAIN PDOLValues)
  => (pc = "fatal" /\ sent = <<>> /\ inflight = <<>>)

\* a descriptor with a known pair followed by an unknown tag has been negotiated
C9_Witness ==
  /\ op = "getProcessingOptions" /\ pc = "fatal"
  /\ Len(Pairs) = 2 /\ Pairs[1].tag = \h9F02 /\ Pairs[2].tag = \h9F7A

(***************************************************************************)
(* Properties of the log fetch (SpecLog).                                  *)
(***************************************************************************)
\* the order of the commands, and where the fetch stops
LogOrder ==
  op = "extractLogEntries" =>
    /\ Len(sent) >= 1
    /\ sent[1] = GET_DATA_LOG_FORMAT
    /\ Len(sent) <= 1 + logCount
    /\ \A k \in 2..Len(sent) :
         sent[k] = [READ_RECORD EXCEPT ![5] = k - 1, ![6] = ((logSFI * 8) % 256) + 4]
    /\ failedAt # 0 => (Len(sent) = failedAt /\ pc = "idle" /\ ret = 1)
    /\ (pc = "idle" /\ failedAt = 0) => (Len(sent) = 1 + logCount /\ ret = 0)

\* a result is stored at the position of the record number of its command
LogStored ==
  pc = "log_wait" =>
    /\ logEntries'[sent[Len(sent)][5]] = res'
    /\ \A k \in 1..LogCapacity : k # sent[Len(sent)][5] => logEntries'[k] = logEntries[k]

\* C5: extractLogEntries sends get-log-format first and, when that result is empty, no
\* read-record command and reports failure; otherwise read-record with P1 = 1, 2, ... and
\* P2 = (logSFI << 3) | 0b100 (a byte), stopping after logCount records or right after
\* the first empty result, which is reported as failure; every result is stored at the
\* position of its record number.
C5_LogFetch == []LogOrder /\ [][LogStored]_vars

\* two records were announced, fetched and stored, and the fetch returned 0
C5_Witness ==
  /\ op = "extractLogEntries" /\ pc = "idle" /\ ret = 0
  /\ logCount = 2 /\ Len(sent) = 3 /\ logSFI = 33
  /\ logEntries[1].size # 0 /\ logEntries[2].size # 0 /\ logEntries[1] # logEntries[2]

(***************************************************************************)
(* Properties of a whole session (Spec).                                   *)
(***************************************************************************)
\* at most one command is outstanding, and abtRx is read only by the operation that
\* issued the latest command, after its reply and before the next command
OneAtATime ==
  /\ Len(inflight) <= 1
  /\ rxReadBy # "none" => (rxReadBy = rxOwner /\ inflight = <<>>)
  /\ pc = "getAll_scan" => (rxOwner = "getAll" /\ inflight = <<>>)

\* a reply that overwrites abtRx leaves every result kept from an earlier command as it was
KeptResults ==
  abtRx' # abtRx =>
    /\ op # "getAll" => list' = list
    /\ op # "extractBaseRecords" =>
         /\ track1DiscretionaryData' = track1DiscretionaryData
         /\ track2EquivalentData' = track2EquivalentData
    /\ pc # "log_format_wait" => logFormat' = logFormat
    /\ \A k \in 1..LogCapacity :
         (pc = "log_wait" /\ k = logIndex + 1) \/ logEntries'[k] = logEntries[k]
    /\ application' = application
    /\ pdol' = pdol

\* C10: there is never more than one outstanding command, the shared receive buffer is
\* read only by the operation that issued the latest command and only before the next
\* command is issued, and every result kept across a later executeCommand is a copy.
C10_OneChannel == []OneAtATime /\ [][KeptResults]_vars

\* the log fetch has overwritten abtRx twice while the list, the descriptor, a track and
\* the log format of earlier commands are still held
C10_Witness ==
  /\ op = "extractLogEntries" /\ pc = "idle"
  /\ Len(list) = 1 /\ pdol.size # 0 /\ track2EquivalentData.size # 0
  /\ logFormat.size # 0 /\ logEntries[1].size # 0
  /\ SubSeq(abtRx, 2, szRx) = logEntries[1].data

(***************************************************************************)
(* Properties of the log decoder (SpecPaylog).                             *)
(***************************************************************************)
\* the tags the decoder has a field for
OneByteLogTags == {\h9A, \h9C}
TwoByteLogTags == {<<\h9F, \h21>>, <<\h5F, \h2A>>, <<\h9F, \h02>>, <<\h9F, \h4E>>,
                   <<\h9F, \h36>>, <<\h9F, \h1A>>, <<\h9F, \h27>>}

\* the length the format declares for the recognized tag at index i, -1 without one
DeclaredAt(d, n, i) ==
  IF Rd0(d, i) \in OneByteLogTags THEN Rd0(d, i + 1)
  ELSE IF i + 1 < n /\ <<Rd0(d, i), Rd0(d, i + 1)>> \in TwoByteLogTags THEN Rd0(d, i + 2)
  ELSE -1

\* the format read as a list of (tag, length) pairs from index i on, a first byte whose
\* low five bits are all set opening a two-byte tag: the sum of the lengths declared for
\* the recognized tags
RECURSIVE DeclaredSum(_, _)
DeclaredSum(d, i) ==
  IF i >= Len(d) THEN 0
  ELSE LET two == Rd0(d, i) % 32 = 31
           at == IF two THEN i + 2 ELSE i + 1
           known == IF two THEN <<Rd0(d, i), Rd0(d, i + 1)>> \in TwoByteLogTags
                    ELSE Rd0(d, i) \in OneByteLogTags
       IN (IF known THEN Rd0(d, at) ELSE 0) + DeclaredSum(d, at + 1)

\* C11: in printPaylog, for every log entry, the step that meets a recognized tag of the
\* format moves the entry cursor e by exactly the length the format declares for that
\* tag, wherever the format cursor i stands, and once the format is walked e is the sum
\* of the lengths declared for the recognized tags.
C11_CursorAdvance ==
  /\ [][(/\ pc = "paylog_walk"
         /\ paylogI < logFormat.size
         /\ DeclaredAt(logFormat.data, logFormat.size, paylogI) >= 0)
        => paylogE' = paylogE + DeclaredAt(logFormat.data, logFormat.size, paylogI)]_vars
  /\ []((pc = "paylog_walk" /\ paylogI >= logFormat.size)
        => paylogE = DeclaredSum(logFormat.data, 0))

====
